---- MODULE Spec2Model ----
(***************************************************************************)
(* A model of diurnal.py: the DiurnalExtrema class (extraction pass,       *)
(* threshold filter, manual override, occurrence predictor) and the        *)
(* module-level helpers it rests on (window resolver, extremum locator,    *)
(* boundary validator).                                                    *)
(*                                                                         *)
(* Time is in whole seconds since the epoch (pandas rounds timestamps on   *)
(* the epoch-anchored grid); every sample of a signal sits on a whole      *)
(* second.  The end of a calendar day, 23:59:59.999999999, is written      *)
(* 23:59:59: with whole-second samples both bounds slice, floor and        *)
(* compare alike.  A value that may be None is a sequence: <<>> for None,  *)
(* <<x>> for x.  Where a function draws at random (random.randint in       *)
(* to_exact_indexing) the operator returns the set of its outcomes.        *)
(***************************************************************************)
EXTENDS Integers, Sequences, FiniteSets, TLC

None == <<>>
Some(x) == <<x>>

SecondsPerHour == 60 * 60
SecondsPerDay == 24 * SecondsPerHour

\* pd.Timedelta(hours=18): the maximum is searched up to 18 hours after the minimum
MaxAfterMinHours == 18
\* get_occurance_windows(day, 8, ...): radius of a predicted window, in hours
OccuranceWindowHours == 8
\* timeseries[bound_idx-5:bound_idx+5]
AroundBound == 5
\* bool_check_around_bound: len(subset) < 3
MinAround == 3
\* to_exact_indexing: len(subset) > 2
NoDataLen == 2

(***************************************************************************)
(* pandas and Python primitives                                            *)
(***************************************************************************)

\* timeseries.index
Index(ts) == {ts[i].t : i \in 1..Len(ts)}

\* timeseries[start:end] on a sorted DatetimeIndex: both labels included
LabelSlice(ts, start, end) == SelectSeq(ts, LAMBDA s : start <= s.t /\ s.t <= end)

\* timeseries[i:j] by position (0-based, Python's rules for a negative or
\* too large bound)
PySliceBound(k, n) == IF k < 0 THEN (IF k + n < 0 THEN 0 ELSE k + n)
                      ELSE (IF k > n THEN n ELSE k)

PositionalSlice(ts, i, j) ==
  LET lo == PySliceBound(i, Len(ts))
      hi == PySliceBound(j, Len(ts))
  IN IF lo < hi THEN SubSeq(ts, lo + 1, hi) ELSE <<>>

\* timeseries.index.get_loc(bound), 0-based
GetLoc(ts, bound) == (CHOOSE i \in 1..Len(ts) : ts[i].t = bound) - 1

\* Timestamp.floor / Timestamp.ceil on the grid of res seconds
Floor(x, res) == (x \div res) * res
Ceil(x, res) == ((x + res - 1) \div res) * res

\* index.to_period('D'): the calendar day of a timestamp, and its bounds
DayOf(t) == t \div SecondsPerDay
DayStart(day) == day * SecondsPerDay
DayEnd(day) == day * SecondsPerDay + (SecondsPerDay - 1)

\* timeseries.index.to_period('D').unique(): the days, in order of first
\* appearance
UniqueDays(ts) ==
  LET firsts == {i \in 1..Len(ts) : \A j \in 1..(i - 1) : DayOf(ts[j].t) # DayOf(ts[i].t)}
  IN [k \in 1..Cardinality(firsts) |->
        DayOf(ts[CHOOSE i \in firsts : Cardinality({j \in firsts : j < i}) = k - 1].t)]

\* Python truth of a value: None and 0 are false
Truthy(x) == x # None /\ x[1] # 0
\* Python truth of a pd.Timestamp or None: only None is false
TruthyTime(x) == x # None

(***************************************************************************)
(* Module-level helpers                                                    *)
(***************************************************************************)

\* the (None, None) extremum
NotFound == [val |-> None, time |-> None]

bool_is_same(val1, val2) == val1 = val2

make_end_of_day(timestamp) == DayEnd(DayOf(timestamp))

\* start_before_end(start, end) returns True or raises ValueError
start_before_end(start, end) == start < end

\* first position (1-based) of the smallest / largest value of a non-empty series
ArgMin(ts) == CHOOSE i \in 1..Len(ts) :
                /\ \A j \in 1..Len(ts) : ts[i].v <= ts[j].v
                /\ \A j \in 1..(i - 1) : ts[j].v > ts[i].v
ArgMax(ts) == CHOOSE i \in 1..Len(ts) :
                /\ \A j \in 1..Len(ts) : ts[i].v >= ts[j].v
                /\ \A j \in 1..(i - 1) : ts[j].v < ts[i].v

get_min(ts) == [val |-> Some(ts[ArgMin(ts)].v), time |-> Some(ts[ArgMin(ts)].t)]
get_max(ts) == [val |-> Some(ts[ArgMax(ts)].v), time |-> Some(ts[ArgMax(ts)].t)]

\* DiurnalExtrema.get_extrema on a non-empty series (idxmin / idxmax raise
\* ValueError on an empty one: the callers below test for it)
get_extrema(ts, min_or_max) == IF min_or_max = "max" THEN get_max(ts) ELSE get_min(ts)

\* the sampling resolution to_exact_indexing reads off one adjacent pair:
\* the minutes component of the gap, or, when that is 0, its seconds component
WindowRes(gap) ==
  LET minutes == (gap \div 60) % 60
      seconds == gap % 60
  IN IF minutes # 0 THEN 60 * minutes ELSE seconds

\* every resolution random.randint(1, len(subset)-1) can lead to
Resolutions(subset) ==
  {WindowRes(subset[idx + 1].t - subset[idx].t) : idx \in 1..(Len(subset) - 1)}

\* A window specification: an explicit pair of timestamps, a calendar day
\* (pd.Period) or a number of days (int).
TupleWindow(start, end) == [kind |-> "tuple", a |-> start, b |-> end]
PeriodWindow(day) == [kind |-> "period", a |-> day, b |-> 0]
IntWindow(n) == [kind |-> "int", a |-> n, b |-> 0]

\* what to_exact_indexing returns or raises
Exact(start, end) == [err |-> "none", found |-> TRUE, start |-> start, end |-> end]
NoData == [err |-> "none", found |-> FALSE, start |-> 0, end |-> 0]
Raises(e) == [err |-> e, found |-> FALSE, start |-> 0, end |-> 0]

\* the raw (start, end) of a window specification
RawStart(window, ts) ==
  CASE window.kind = "tuple" -> window.a
    [] window.kind = "period" -> DayStart(window.a)
    [] window.kind = "int" -> ts[1].t

RawEnd(window, ts) ==
  CASE window.kind = "tuple" -> window.b
    [] window.kind = "period" -> DayEnd(window.a)
    [] window.kind = "int" -> make_end_of_day(ts[1].t + window.a * SecondsPerDay)

\* Rounding to a grid of 0 seconds divides by zero: pandas up to 1.2 leaves the
\* value as it is (numpy's remainder by 0 is 0), later versions raise.
RoundToRes(start, end, res) ==
  IF res = 0
    THEN {Exact(start, end), Raises("ZeroDivision: rounding to 0s")}
    ELSE {Exact(Ceil(start, res), Floor(end, res))}

\* to_exact_indexing(window, timeseries): the set of its outcomes
to_exact_indexing(window, ts) ==
  IF window.kind = "tuple" /\ ~start_before_end(window.a, window.b)
    THEN {Raises("ValueError: Window invalid")}
  ELSE IF window.kind = "int" /\ ts = <<>>
    THEN {Raises("IndexError: index 0 is out of bounds")}
  ELSE LET start == RawStart(window, ts)
           end == RawEnd(window, ts)
           subset == LabelSlice(ts, start, end)
       IN IF Len(subset) > NoDataLen
            THEN UNION {RoundToRes(start, end, res) : res \in Resolutions(subset)}
            ELSE {NoData}

\* get_index_of_bound with subset.index[1] for the start: one sample too far
get_index_of_bound_second(ts, window, end_point) ==
  LET subset == LabelSlice(ts, window.start, window.end)
  IN IF end_point = "end" THEN subset[Len(subset)].t
     ELSE subset[IF Len(subset) > 1 THEN 2 ELSE 1].t

\* get_index_of_bound(timeseries, window, end_point)
get_index_of_bound(ts, window, end_point) ==
  LET subset == LabelSlice(ts, window.start, window.end)
  IN IF end_point = "end" THEN subset[Len(subset)].t ELSE subset[1].t

\* bool_check_around_bound(timeseries, bound, extrema_tup, val_type)
bool_check_around_bound(ts, bound, extrema_tup, val_type) ==
  LET bound_idx == GetLoc(ts, bound)
      subset == PositionalSlice(ts, bound_idx - AroundBound, bound_idx + AroundBound)
  IN IF Len(subset) < MinAround
       THEN FALSE
       ELSE LET new_tup == get_extrema(subset, val_type)
            IN \/ bool_is_same(new_tup.time, extrema_tup.time)
               \/ new_tup.val = extrema_tup.val

\* the bound on_boundary compares with the extremum's time
BoundSample(ts, window, end_point) ==
  LET bound == IF end_point = "end" THEN window.end ELSE window.start
  IN IF bound \notin Index(ts) THEN get_index_of_bound(ts, window, end_point) ELSE bound

\* on_boundary(timeseries, window, extrema_tuple, val_type): its result and the
\* edges at which it called bool_check_around_bound
on_boundary(ts, window, extrema_tuple, val_type) ==
  LET startBound == BoundSample(ts, window, "start")
      startHit == bool_is_same(Some(startBound), extrema_tuple.time)
      startOk == IF startHit
                   THEN bool_check_around_bound(ts, startBound, extrema_tuple, val_type)
                   ELSE TRUE
      endBound == BoundSample(ts, window, "end")
      endHit == startOk /\ bool_is_same(Some(endBound), extrema_tuple.time)
      endOk == IF endHit
                 THEN bool_check_around_bound(ts, endBound, extrema_tuple, val_type)
                 ELSE startOk
  IN [ok |-> endOk,
      checked |-> (IF startHit THEN {"start"} ELSE {}) \cup (IF endHit THEN {"end"} ELSE {})]

\* DiurnalExtrema.get_real_extrema(ts, window, min_or_max): the set of its
\* outcomes, each [err, ext]
Found(ext) == [err |-> "none", ext |-> ext]
Fails(e) == [err |-> e, ext |-> NotFound]

RealExtremaIn(ts, w, min_or_max) ==
  IF w.err # "none" THEN Fails(w.err)
  ELSE IF ~w.found THEN Found(NotFound)
  ELSE LET data == LabelSlice(ts, w.start, w.end)
       IN IF data = <<>>
            THEN Fails("ValueError: attempt to get argmin of an empty sequence")
            ELSE LET extremaTuple == get_extrema(data, min_or_max)
                 IN IF on_boundary(ts, w, extremaTuple, min_or_max).ok
                      THEN Found(extremaTuple)
                      ELSE Found(NotFound)

get_real_extrema(ts, window, min_or_max) ==
  {RealExtremaIn(ts, w, min_or_max) : w \in to_exact_indexing(window, ts)}

(***************************************************************************)
(* The occurrence predictor's helpers                                      *)
(***************************************************************************)

\* occurance_time.round('H').hour: the nearest hour (a half goes to the even
\* hour), then its hour of day
add_occurance(occurance_time, occurance_list) ==
  LET q == occurance_time \div SecondsPerHour
      r == occurance_time % SecondsPerHour
      rounded == IF 2 * r > SecondsPerHour \/ (2 * r = SecondsPerHour /\ q % 2 = 1)
                   THEN q + 1 ELSE q
  IN Append(occurance_list, rounded % 24)

RECURSIVE SumSeq(_)
SumSeq(s) == IF s = <<>> THEN 0 ELSE s[1] + SumSeq(Tail(s))

\* round(sum / len, 3), in thousandths of an hour (no tie below 16 entries)
mean_occurance(occurance_list) ==
  (2000 * SumSeq(occurance_list) + Len(occurance_list)) \div (2 * Len(occurance_list))

\* pd.Timedelta(hours=h) rounded to the second, h in thousandths of an hour
HoursToSeconds(millihours) == (36 * millihours + 5) \div 10

\* create_timewindow(day, center, numhours), center in thousandths of an hour
create_timewindow(day, center, numhours) ==
  TupleWindow(DayStart(day) + HoursToSeconds(center - 1000 * numhours),
              DayStart(day) + HoursToSeconds(center + 1000 * numhours))

\* get_occurance_windows(day, window_length, minOccurs, maxOccurs)
get_occurance_windows(day, window_length, minOccurs, maxOccurs) ==
  <<create_timewindow(day, minOccurs, window_length),
    create_timewindow(day, maxOccurs, window_length)>>

\* the window after the minimum taken a whole day long instead of 18 hours
AfterMinWindow_day(minTime) ==
  TupleWindow(minTime, minTime + SecondsPerDay)

\* the 18-hour window that starts at the minimum
AfterMinWindow(minTime) ==
  TupleWindow(minTime, minTime + MaxAfterMinHours * SecondsPerHour)

(***************************************************************************)
(* The DiurnalExtrema instance                                             *)
(***************************************************************************)
VARIABLES
  timeseries,     \* self.timeseries: the samples [t, v], by increasing t
  minfirst,       \* self.minfirst
  maxnextday,     \* self.maxnextday
  predictTiming,  \* self.predictTiming
  window,         \* self.window: the calibration period, in days
  threshold,      \* self.threshold: None or the least amplitude kept
  diurnal_vals,   \* self.diurnal_vals: the records appended so far
  df,             \* self.df: the result table, a sequence of records
  predicted,      \* the lru_cache of predict_extrema: None or the two means
  pc,             \* "new": before __init__; "ready": constructed; "raised":
                  \* __init__ raised; "probe": a helper is called on its own
  error,          \* what the last call raised, "none" if it returned
  last,           \* the name of the last call
  edits,          \* calls of change_extrema_picks so far
  runs,           \* calls of find_diurnal_extrema so far
  probe           \* the arguments and results of a helper called on its own

vars == <<timeseries, minfirst, maxnextday, predictTiming, window, threshold,
          diurnal_vals, df, predicted, pc, error, last, edits, runs, probe>>

config == <<timeseries, minfirst, maxnextday, predictTiming, window, threshold>>

\* one row of self.diurnal_vals and of self.df
Record(day, minExt, maxExt) ==
  [Date |-> day, min_val |-> minExt.val, min_time |-> minExt.time,
   max_val |-> maxExt.val, max_time |-> maxExt.time]

\* what one pass of the loop of find_diurnal_extrema does: raise, skip the day
\* (continue) or append a record
DayRaises(e) == [err |-> e, skip |-> TRUE, rec |-> Record(0, NotFound, NotFound)]
DayResult(day, minExt, maxExt) ==
  [err |-> "none",
   skip |-> Truthy(maxExt.val) /\ Truthy(minExt.val) /\ minExt.val[1] > maxExt.val[1],
   rec |-> Record(day, minExt, maxExt)]

\* the maximum of a day, once its minimum is known
MaxOutcomes(ts, day, maxWindow, m) ==
  {IF x.err # "none" THEN DayRaises(x.err) ELSE DayResult(day, m.ext, x.ext)
     : x \in get_real_extrema(ts, maxWindow, "max")}

\* find_diurnal_extrema, the else branch of the loop (not predictTiming)
PlainDay(day) ==
  UNION {IF m.err # "none" THEN {DayRaises(m.err)}
         ELSE IF minfirst /\ maxnextday
           THEN IF m.ext.time = None
                  THEN {DayRaises("TypeError: NoneType + Timedelta")}
                  ELSE MaxOutcomes(timeseries, day, AfterMinWindow(m.ext.time[1]), m)
           ELSE MaxOutcomes(timeseries, day, PeriodWindow(day), m)
           : m \in get_real_extrema(timeseries, PeriodWindow(day), "min")}

\* find_diurnal_extrema, the predictTiming branch of the loop; occurs holds
\* what predict_extrema returned
PredictedDay(day, occurs) ==
  LET windows == get_occurance_windows(day, OccuranceWindowHours, occurs.min, occurs.max)
      min_window == windows[1]
      max_window == windows[2]
  IN UNION {IF m.err # "none" THEN {DayRaises(m.err)}
            ELSE IF minfirst /\ TruthyTime(m.ext.time) /\ max_window.a < m.ext.time[1]
              THEN MaxOutcomes(timeseries, day, TupleWindow(m.ext.time[1], max_window.b), m)
              ELSE MaxOutcomes(timeseries, day, max_window, m)
              : m \in get_real_extrema(timeseries, min_window, "min")}

\* what predict_extrema returns or raises
Occurs(minOccurs, maxOccurs) == [err |-> "none", min |-> minOccurs, max |-> maxOccurs]
PredictRaises(e) == [err |-> e, min |-> 0, max |-> 0]

NoneHasNoRound == "AttributeError: NoneType has no attribute round"

\* predict_extrema, one pass of its loop over the days of calib_data: the
\* outcomes, each [err, min_occurs, max_occurs]
CalibDay(calib_data, day, min_occurs, max_occurs) ==
  UNION {IF m.err # "none" THEN {[err |-> m.err, min_occurs |-> <<>>, max_occurs |-> <<>>]}
         ELSE {IF x.err # "none" \/ m.ext.time = None \/ x.ext.time = None
                 THEN [err |-> (IF x.err # "none" THEN x.err ELSE NoneHasNoRound),
                       min_occurs |-> <<>>, max_occurs |-> <<>>]
                 ELSE [err |-> "none",
                       min_occurs |-> add_occurance(m.ext.time[1], min_occurs),
                       max_occurs |-> add_occurance(x.ext.time[1], max_occurs)]
                 : x \in get_real_extrema(calib_data,
                           IF TruthyTime(m.ext.time) /\ minfirst /\ maxnextday
                             THEN AfterMinWindow(m.ext.time[1])
                             ELSE PeriodWindow(day),
                           "max")}
           : m \in get_real_extrema(calib_data, PeriodWindow(day), "min")}

RECURSIVE CalibDays(_, _, _, _, _)
CalibDays(calib_data, days, i, min_occurs, max_occurs) ==
  IF i > Len(days)
    THEN {Occurs(mean_occurance(min_occurs), mean_occurance(max_occurs))}
    ELSE UNION {IF o.err # "none" THEN {PredictRaises(o.err)}
                ELSE CalibDays(calib_data, days, i + 1, o.min_occurs, o.max_occurs)
                  : o \in CalibDay(calib_data, days[i], min_occurs, max_occurs)}

\* DiurnalExtrema.predict_extrema: the set of its outcomes
predict_extrema ==
  UNION {IF w.err # "none" THEN {PredictRaises(w.err)}
         ELSE IF ~w.found
           THEN {PredictRaises("TypeError: cannot unpack non-iterable NoneType object")}
         ELSE LET calib_data == LabelSlice(timeseries, w.start, w.end)
              IN IF calib_data = <<>>
                   THEN {PredictRaises("ValueError: Calibration timerange is not valid")}
                   ELSE CalibDays(calib_data, UniqueDays(calib_data), 1, <<>>, <<>>)
           : w \in to_exact_indexing(IntWindow(window), timeseries)}

\* the lru_cache: predict_extrema runs once for the instance
CachedPredict(cache) ==
  IF cache # None THEN {Occurs(cache[1].min, cache[1].max)} ELSE predict_extrema

\* DiurnalExtrema.apply_threshold: rows are dropped by their label, the day
Amplitude(rec) == rec.max_val[1] - rec.min_val[1]
HasBoth(rec) == rec.max_val # None /\ rec.min_val # None

\* apply_threshold with <= for <: a day whose amplitude equals the threshold
\* is dropped too
apply_threshold_le(table, thr) ==
  IF thr = None THEN table
  ELSE LET dropped == {table[i].Date : i \in {j \in 1..Len(table) :
                          HasBoth(table[j]) /\ Amplitude(table[j]) <= thr[1]}}
       IN SelectSeq(table, LAMBDA rec : rec.Date \notin dropped)

apply_threshold(table, thr) ==
  IF thr = None THEN table
  ELSE LET dropped == {table[i].Date : i \in {j \in 1..Len(table) :
                          HasBoth(table[j]) /\ Amplitude(table[j]) < thr[1]}}
       IN SelectSeq(table, LAMBDA rec : rec.Date \notin dropped)

\* the loop of find_diurnal_extrema from day i on: the outcomes, each
\* [err, vals, cache] with vals the new self.diurnal_vals
Extraction(e, vals, cache) == [err |-> e, vals |-> vals, cache |-> cache]

RECURSIVE ExtractDays(_, _, _, _)
ExtractDays(days, i, vals, cache) ==
  IF i > Len(days) THEN {Extraction("none", vals, cache)}
  ELSE IF predictTiming
    THEN UNION {IF p.err # "none" THEN {Extraction(p.err, vals, cache)}
                ELSE UNION {IF o.err # "none"
                              THEN {Extraction(o.err, vals, Some([min |-> p.min, max |-> p.max]))}
                              ELSE ExtractDays(days, i + 1,
                                     IF o.skip THEN vals ELSE Append(vals, o.rec),
                                     Some([min |-> p.min, max |-> p.max]))
                              : o \in PredictedDay(days[i], p)}
                  : p \in CachedPredict(cache)}
    ELSE UNION {IF o.err # "none" THEN {Extraction(o.err, vals, cache)}
                ELSE ExtractDays(days, i + 1,
                       IF o.skip THEN vals ELSE Append(vals, o.rec), cache)
                  : o \in PlainDay(days[i])}

\* DiurnalExtrema.find_diurnal_extrema: the set of its outcomes, each
\* [err, vals, cache, table]; pd.DataFrame([]).set_index('Date') raises
find_diurnal_extrema(vals, cache) ==
  {IF o.err # "none" THEN [err |-> o.err, vals |-> o.vals, cache |-> o.cache, table |-> <<>>]
   ELSE IF o.vals = <<>>
     THEN [err |-> "KeyError: Date", vals |-> o.vals, cache |-> o.cache, table |-> <<>>]
     ELSE [err |-> "none", vals |-> o.vals, cache |-> o.cache,
           table |-> apply_threshold(o.vals, threshold)]
     : o \in ExtractDays(UniqueDays(timeseries), 1, vals, cache)}

\* extrema_slice(day, times): the two times of day, as timestamps of that day
extrema_slice(day, times) == <<DayStart(day) + times[1], DayStart(day) + times[2]>>

\* rows of the table whose label is the day get the value and the time
SetPicks(table, day, extrema, value, time) ==
  [i \in 1..Len(table) |->
     IF table[i].Date # day THEN table[i]
     ELSE [Date |-> day,
           min_val |-> IF "min" \in extrema THEN value ELSE table[i].min_val,
           min_time |-> IF "min" \in extrema THEN time ELSE table[i].min_time,
           max_val |-> IF "max" \in extrema THEN value ELSE table[i].max_val,
           max_time |-> IF "max" \in extrema THEN time ELSE table[i].max_time]]

\* DiurnalExtrema.change_extrema_picks(day, which, new_extrema, find_between):
\* [err, table].  new_extrema is None or a pair <<value, time>>, find_between
\* is None (False) or a pair of times of day.  Without find_between,
\*   value, time = new_extrema if isinstance(new_extrema, tuple) else None, None
\* binds value to the whole of new_extrema and time to None, and storing a
\* pair in one cell of the table raises.
change_extrema_picks(table, day, which, new_extrema, find_between) ==
  LET extrema == IF which = "both" THEN {"min", "max"} ELSE {which}
      between == LabelSlice(timeseries, extrema_slice(day, find_between)[1],
                            extrema_slice(day, find_between)[2])
  IN IF \A i \in 1..Len(table) : table[i].Date # day
       THEN [err |-> "ValueError: date not found in dataframe index", table |-> table]
     ELSE IF find_between # None
       THEN IF which \notin {"min", "max"}
              THEN [err |-> "ValueError: input value is not a valid option", table |-> table]
            ELSE IF between = <<>>
              THEN [err |-> "ValueError: attempt to get argmin of an empty sequence",
                    table |-> table]
            ELSE [err |-> "none",
                  table |-> SetPicks(table, day, extrema, get_extrema(between, which).val,
                                     get_extrema(between, which).time)]
     ELSE IF new_extrema # None
       THEN [err |-> "ValueError: Must have equal len keys and value", table |-> table]
       ELSE [err |-> "none", table |-> SetPicks(table, day, extrema, None, None)]

(***************************************************************************)
(* The signals and settings the instance is built from                     *)
(***************************************************************************)

\* Signals of up to MaxSamples samples: each day has three samples around
\* 06:00 (a dip: level+1, level, level+1) and three around 18:00 (a peak:
\* level-1, level, level-1), a quarter of an hour or an hour apart; a signal
\* may end within a day.
MaxSamples == 12
Levels == {-1, 0, 1}
Spacings == {15 * 60, SecondsPerHour}
EarlyTime == 6 * SecondsPerHour
LateTime == 18 * SecondsPerHour

ClusterOf(k) == (k - 1) \div 3
SampleTime(k, spacing) ==
  DayStart(ClusterOf(k) \div 2)
    + (IF ClusterOf(k) % 2 = 0 THEN EarlyTime ELSE LateTime)
    + (((k - 1) % 3) - 1) * spacing
SampleValue(k, levels) ==
  LET level == levels[ClusterOf(k) + 1]
      off == IF (k - 1) % 3 = 1 THEN 0 ELSE 1
  IN IF ClusterOf(k) % 2 = 0 THEN level + off ELSE level - off

ClusterSignal(n, spacing, levels) ==
  [k \in 1..n |-> [t |-> SampleTime(k, spacing), v |-> SampleValue(k, levels)]]

Signals ==
  UNION {{ClusterSignal(n, spacing, levels)
            : levels \in [1..((n + 2) \div 3) -> Levels], spacing \in Spacings}
           : n \in 0..MaxSamples}

\* the default calibration period, window=4, and the shortest one
DefaultWindow == 4
Windows == {0, DefaultWindow}
Thresholds == {None, Some(2)}

\* the arguments of change_extrema_picks
MaxEdits == 1
PickDays == 0..(DayOf(SampleTime(MaxSamples, 0)) + 1)
NewPick(day) == <<33, DayStart(day) + 12 * SecondsPerHour>>
FindBetween == <<EarlyTime, LateTime>>

Unbuilt ==
  /\ diurnal_vals = <<>>
  /\ df = <<>>
  /\ predicted = None
  /\ error = "none"
  /\ last = "none"
  /\ edits = 0
  /\ runs = 0

NoProbe == [op |-> "none", spec |-> IntWindow(0), mode |-> "min", first |-> NoData,
            second |-> NoData, ext |-> NotFound, ok |-> FALSE, checked |-> {}]

Init ==
  /\ timeseries \in Signals
  /\ minfirst \in BOOLEAN
  /\ maxnextday \in BOOLEAN
  /\ predictTiming \in BOOLEAN
  /\ window \in (IF predictTiming THEN Windows ELSE {DefaultWindow})
  /\ threshold \in Thresholds
  /\ pc = "new"
  /\ probe = NoProbe
  /\ Unbuilt

(***************************************************************************)
(* The calls                                                               *)
(***************************************************************************)

\* DiurnalExtrema.__init__: self.diurnal_vals = [], then
\* self.df = self.find_diurnal_extrema()
Construct ==
  /\ pc = "new"
  /\ \E o \in find_diurnal_extrema(<<>>, None) :
       /\ pc' = IF o.err = "none" THEN "ready" ELSE "raised"
       /\ error' = o.err
       /\ diurnal_vals' = o.vals
       /\ predicted' = o.cache
       /\ df' = o.table
  /\ last' = "__init__"
  /\ runs' = 1
  /\ UNCHANGED <<config, edits, probe>>

\* a further call of find_diurnal_extrema on the instance: self.diurnal_vals
\* is appended to as it stands, self.df is rebuilt from it
MaxRuns == 2
FindDiurnalExtrema ==
  /\ pc = "ready"
  /\ runs < MaxRuns
  /\ \E o \in find_diurnal_extrema(diurnal_vals, predicted) :
       /\ error' = o.err
       /\ diurnal_vals' = o.vals
       /\ predicted' = o.cache
       /\ df' = IF o.err = "none" THEN o.table ELSE df
  /\ last' = "find_diurnal_extrema"
  /\ runs' = runs + 1
  /\ UNCHANGED <<config, pc, edits, probe>>

\* a call of apply_threshold on the instance
ApplyThreshold ==
  /\ pc = "ready"
  /\ df' = apply_threshold(df, threshold)
  /\ error' = "none"
  /\ last' = "apply_threshold"
  /\ UNCHANGED <<config, diurnal_vals, predicted, pc, edits, runs, probe>>

\* a call of change_extrema_picks on the instance
ChangePicks(day, which, new_extrema, find_between) ==
  /\ pc = "ready"
  /\ edits < MaxEdits
  /\ df' = change_extrema_picks(df, day, which, new_extrema, find_between).table
  /\ error' = change_extrema_picks(df, day, which, new_extrema, find_between).err
  /\ last' = "change_extrema_picks"
  /\ edits' = edits + 1
  /\ UNCHANGED <<config, diurnal_vals, predicted, pc, runs, probe>>

ChangeExtremaPicks ==
  \E day \in PickDays, which \in {"min", "max", "both"} :
    \E new_extrema \in {None, NewPick(day)}, find_between \in {None, FindBetween} :
      ChangePicks(day, which, new_extrema, find_between)

Next == Construct \/ ApplyThreshold \/ ChangeExtremaPicks

Spec == Init /\ [][Next]_vars

\* the instance with find_diurnal_extrema called again on it
NextReinvoke == Next \/ FindDiurnalExtrema

SpecReinvoke == Init /\ [][NextReinvoke]_vars

(***************************************************************************)
(* Scenario A: hourly samples over two full days, one minimum at 04:00 and *)
(* one maximum at 16:00 each day, non-predictive, minimum first, maximum   *)
(* next day, no threshold                                                  *)
(***************************************************************************)
ScenarioLows == {-20, 0, 10}
ScenarioRanges == {12, 20}

\* hours between hour h of the day and the nearest 04:00
HoursFromMin(h) ==
  LET ahead == (h - 4) % 24
  IN IF ahead <= 12 THEN ahead ELSE 24 - ahead

ScenarioSignal(lo, range) ==
  [k \in 1..48 |-> [t |-> (k - 1) * SecondsPerHour,
                    v |-> lo + (range * HoursFromMin((k - 1) % 24)) \div 12]]

ScenarioSignals == {ScenarioSignal(lo, range) : lo \in ScenarioLows, range \in ScenarioRanges}

InitScenarioA ==
  /\ timeseries \in ScenarioSignals
  /\ minfirst = TRUE
  /\ maxnextday = TRUE
  /\ predictTiming = FALSE
  /\ window = DefaultWindow
  /\ threshold = None
  /\ pc = "new"
  /\ probe = NoProbe
  /\ Unbuilt

SpecScenarioA == InitScenarioA /\ [][Next]_vars

(***************************************************************************)
(* Claims about the instance                                               *)
(***************************************************************************)

\* C1: after construction, whatever the signal's values and the settings,
\* every record of the table with both values present has min_val <= max_val
\* (a day whose minimum exceeds its maximum is not in the table).
C1_MinNotAboveMax ==
  (pc = "ready" /\ last = "__init__") =>
    \A i \in 1..Len(df) : HasBoth(df[i]) => df[i].min_val[1] <= df[i].max_val[1]

\* the record of a day after an override of one extremum by (v, t)
Overridden(rec, which, pick) ==
  [Date |-> rec.Date,
   min_val |-> IF which = "min" THEN Some(pick[1]) ELSE rec.min_val,
   min_time |-> IF which = "min" THEN Some(pick[2]) ELSE rec.min_time,
   max_val |-> IF which = "max" THEN Some(pick[1]) ELSE rec.max_val,
   max_time |-> IF which = "max" THEN Some(pick[2]) ELSE rec.max_time]

\* C2: change_extrema_picks(day, which, new_extrema=(v, t)) without
\* find_between, for a day of the table and which in {min, max}, leaves the
\* day's record with <which>_val = v and <which>_time = t, its other extremum
\* unchanged, and every other day's record unchanged.
C2_OverrideSetsPick ==
  [][\A day \in PickDays, which \in {"min", "max"} :
       (/\ ChangePicks(day, which, NewPick(day), None)
        /\ \E i \in 1..Len(df) : df[i].Date = day)
       => df' = [i \in 1..Len(df) |->
                   IF df[i].Date = day THEN Overridden(df[i], which, NewPick(day))
                   ELSE df[i]]]_vars

\* the rows the claim says the filter keeps: all but those with both values
\* present and an amplitude below the threshold
KeptByThreshold(table, thr) ==
  SelectSeq(table, LAMBDA rec : ~(HasBoth(rec) /\ rec.max_val[1] - rec.min_val[1] < thr[1]))

ThresholdStep(before, after) ==
  /\ after = KeptByThreshold(before, threshold)
  /\ apply_threshold(after, threshold) = after

\* C3: with a threshold, apply_threshold removes exactly the days whose
\* amplitude max_val - min_val is strictly below it, keeps the other records
\* as they are and in order, and a second application removes nothing; both
\* for the filter at the end of the extraction pass and for a call on the
\* instance.
C3_ThresholdExact ==
  [][/\ (threshold # None /\ last' = "apply_threshold") => ThresholdStep(df, df')
     /\ (threshold # None /\ last' = "__init__" /\ pc' = "ready")
          => ThresholdStep(diurnal_vals', df')]_vars

\* C3's case: the filter has removed a day and kept a day with both values
C3_Witness ==
  /\ pc = "ready"
  /\ threshold # None
  /\ Len(df) < Len(diurnal_vals)
  /\ \E i \in 1..Len(df) : HasBoth(df[i])

\* the table Scenario A is said to give
ScenarioTable(ts) ==
  [d \in 1..2 |->
     [Date |-> d - 1,
      min_val |-> Some(ts[(d - 1) * 24 + 4 + 1].v),
      min_time |-> Some(ts[(d - 1) * 24 + 4 + 1].t),
      max_val |-> Some(ts[(d - 1) * 24 + 16 + 1].v),
      max_time |-> Some(ts[(d - 1) * 24 + 16 + 1].t)]]

\* C4: on Scenario A construction completes without error and the table has
\* exactly the two records (04:00 sample, 16:00 sample) of the two days.
C4_ScenarioA ==
  last = "__init__" => (pc = "ready" /\ error = "none" /\ df = ScenarioTable(timeseries))

\* C5: an extremum that is not found (None) never aborts the extraction pass:
\* construction does not end in an error raised on a None minimum or maximum.
C5_NotFoundNeverAborts ==
  pc = "raised" => error \notin {"TypeError: NoneType + Timedelta", NoneHasNoRound}

\* C6: after construction and any further calls (find_diurnal_extrema again,
\* apply_threshold, change_extrema_picks) the table has at most one record per
\* day, in strictly increasing order of day, each a day with a sample.
C6_OneRecordPerDay ==
  pc = "ready" =>
    /\ \A i \in 1..(Len(df) - 1) : df[i].Date < df[i + 1].Date
    /\ \A i \in 1..Len(df) : \E k \in 1..Len(timeseries) : DayOf(timeseries[k].t) = df[i].Date

\* C9: when the calibration window resolves to no data, predict_extrema, and
\* with it construction, fails with ValueError 'Calibration timerange is not
\* valid' and with no other error.
C9_InvalidCalibration ==
  (/\ last = "__init__"
   /\ predictTiming
   /\ timeseries # <<>>
   /\ NoData \in to_exact_indexing(IntWindow(window), timeseries))
  => (pc = "raised" /\ error = "ValueError: Calibration timerange is not valid")

\* C11: every window the extraction pass hands to get_real_extrema has its
\* start before its end; in particular the clamp of the predicted maximum
\* window to the found minimum never makes construction abort with
\* ValueError 'Window invalid', in any mode.
C11_WindowsStartBeforeEnd ==
  last = "__init__" => ~(pc = "raised" /\ error = "ValueError: Window invalid")

\* C12: every record the extraction pass produced with both times present
\* has, with minfirst and (predictTiming or maxnextday), min_time <= max_time,
\* and without predictTiming max_time at most 18 hours after min_time; with
\* minfirst or maxnextday off and no predictTiming, both times lie in the
\* record's own calendar day.
C12_OrderingPolicy ==
  \A i \in 1..Len(diurnal_vals) :
    LET rec == diurnal_vals[i]
    IN (rec.min_time # None /\ rec.max_time # None) =>
         /\ (minfirst /\ (predictTiming \/ maxnextday))
              => rec.min_time[1] <= rec.max_time[1]
         /\ (minfirst /\ maxnextday /\ ~predictTiming)
              => rec.max_time[1] <= rec.min_time[1] + MaxAfterMinHours * SecondsPerHour
         /\ (~predictTiming /\ (~minfirst \/ ~maxnextday))
              => (DayOf(rec.min_time[1]) = rec.Date /\ DayOf(rec.max_time[1]) = rec.Date)

\* C12's case: a built instance with minfirst and maxnextday whose table has
\* a record with the maximum found on the day after the minimum's
C12_Witness ==
  /\ pc = "ready" /\ minfirst /\ maxnextday /\ ~predictTiming
  /\ \E i \in 1..Len(diurnal_vals) :
       /\ diurnal_vals[i].min_time # None /\ diurnal_vals[i].max_time # None
       /\ DayOf(diurnal_vals[i].max_time[1]) = diurnal_vals[i].Date + 1

(***************************************************************************)
(* The window resolver and the boundary validator called on their own      *)
(***************************************************************************)

\* Signals of up to MaxProbeLen samples from 00:01 of day 1 on, the gaps
\* alternating between two of ProbeGaps (7 minutes, 20 minutes, 1 hour), the
\* values a valley or a peak at one of the samples (a ramp when it is the
\* first or the last), or flat.
MaxProbeLen == 6
ProbeGaps == {7 * 60, 20 * 60, SecondsPerHour}
ProbeStart == DayStart(1) + 60

ProbeTime(k, g1, g2) == ProbeStart + (k \div 2) * g1 + ((k - 1) \div 2) * g2

Distance(i, k) == IF i < k THEN k - i ELSE i - k

ProbeSignals ==
  UNION {UNION {{[i \in 1..n |-> [t |-> ProbeTime(i, g1, g2), v |-> 0]]}
                  \cup {[i \in 1..n |-> [t |-> ProbeTime(i, g1, g2), v |-> Distance(i, k)]]
                          : k \in 1..n}
                  \cup {[i \in 1..n |-> [t |-> ProbeTime(i, g1, g2), v |-> 0 - Distance(i, k)]]
                          : k \in 1..n}
                 : g1 \in ProbeGaps, g2 \in ProbeGaps}
           : n \in 1..MaxProbeLen}

\* the bounds of the windows tried: the samples, and the two ends of day 1
ProbeBounds(ts) == Index(ts) \cup {DayStart(1), DayEnd(1)}

ProbeSpecs(ts) ==
  {PeriodWindow(1), IntWindow(0)} \cup {TupleWindow(a, b) : a \in Index(ts), b \in Index(ts)}

InitProbe ==
  /\ timeseries \in ProbeSignals
  /\ minfirst = TRUE
  /\ maxnextday = TRUE
  /\ predictTiming = FALSE
  /\ window = DefaultWindow
  /\ threshold = None
  /\ pc = "probe"
  /\ probe = NoProbe
  /\ Unbuilt

\* to_exact_indexing(window, timeseries)
ProbeResolve ==
  /\ pc = "probe"
  /\ probe.op = "none"
  /\ \E w \in ProbeSpecs(timeseries) : \E r \in to_exact_indexing(w, timeseries) :
       probe' = [probe EXCEPT !.op = "to_exact_indexing", !.spec = w, !.first = r]
  /\ UNCHANGED <<config, diurnal_vals, df, predicted, pc, error, last, edits, runs>>

\* to_exact_indexing on the pair the first call returned
ProbeResolveAgain ==
  /\ pc = "probe"
  /\ probe.op = "to_exact_indexing"
  /\ probe.first.found
  /\ \E r \in to_exact_indexing(TupleWindow(probe.first.start, probe.first.end), timeseries) :
       probe' = [probe EXCEPT !.op = "to_exact_indexing again", !.second = r]
  /\ UNCHANGED <<config, diurnal_vals, df, predicted, pc, error, last, edits, runs>>

\* get_real_extrema from its exact window on: get_extrema on the slice, then
\* on_boundary
ProbeOnBoundary ==
  /\ pc = "probe"
  /\ probe.op = "none"
  /\ \E a \in ProbeBounds(timeseries), b \in ProbeBounds(timeseries), mode \in {"min", "max"} :
       /\ LabelSlice(timeseries, a, b) # <<>>
       /\ LET ext == get_extrema(LabelSlice(timeseries, a, b), mode)
              res == on_boundary(timeseries, Exact(a, b), ext, mode)
          IN probe' = [probe EXCEPT !.op = "on_boundary", !.first = Exact(a, b),
                                    !.mode = mode, !.ext = ext, !.ok = res.ok,
                                    !.checked = res.checked]
  /\ UNCHANGED <<config, diurnal_vals, df, predicted, pc, error, last, edits, runs>>

NextProbe == ProbeResolve \/ ProbeResolveAgain \/ ProbeOnBoundary

SpecProbe == InitProbe /\ [][NextProbe]_vars

(***************************************************************************)
(* Claims about the helpers                                                *)
(***************************************************************************)

\* C7: when to_exact_indexing returns a pair (s, e), to_exact_indexing on
\* (s, e) with the same signal returns exactly (s, e): not 'no data', no
\* error, no bound moved, whichever adjacent pair gives the resolution.
C7_ResolveRoundTrip ==
  probe.op = "to_exact_indexing again" => probe.second = probe.first

\* the edge samples of a window, as the claims state them: the edge itself
\* when it is a sample, otherwise the first / last sample within the window
SamplesWithin(ts, w) == {t \in Index(ts) : w.start <= t /\ t <= w.end}
StartEdgeSample(ts, w) ==
  IF w.start \in Index(ts) THEN w.start
  ELSE CHOOSE t \in SamplesWithin(ts, w) : \A u \in SamplesWithin(ts, w) : t <= u
EndEdgeSample(ts, w) ==
  IF w.end \in Index(ts) THEN w.end
  ELSE CHOOSE t \in SamplesWithin(ts, w) : \A u \in SamplesWithin(ts, w) : t >= u

OnEdge(ts, w, ext) ==
  ext.time[1] \in {StartEdgeSample(ts, w), EndEdgeSample(ts, w)}

\* C8: an extremum whose time is neither the start-edge sample nor the
\* end-edge sample is accepted by on_boundary, and bool_check_around_bound is
\* not evaluated.
C8_InteriorAccepted ==
  (probe.op = "on_boundary" /\ ~OnEdge(timeseries, probe.first, probe.ext))
    => (probe.ok /\ probe.checked = {})

\* C8's case: on_boundary has run on an extremum strictly inside a window
\* whose two edge samples differ
C8_Witness ==
  /\ probe.op = "on_boundary"
  /\ ~OnEdge(timeseries, probe.first, probe.ext)
  /\ StartEdgeSample(timeseries, probe.first) # EndEdgeSample(timeseries, probe.first)
  /\ probe.ok

\* the neighbourhood the claim states: up to 5 samples before and up to 5
\* after the sample at time t, clipped at the ends of the signal
NeighbourhoodOf(ts, t) ==
  LET i == CHOOSE k \in 1..Len(ts) : ts[k].t = t
  IN {k \in 1..Len(ts) : i - AroundBound <= k /\ k <= i + AroundBound}

\* C10: an extremum on an edge sample is accepted if and only if its
\* neighbourhood has at least 3 samples and none strictly more extreme.
C10_EdgeAcceptedIffLocal ==
  (probe.op = "on_boundary" /\ OnEdge(timeseries, probe.first, probe.ext))
    => (probe.ok <=>
          LET around == NeighbourhoodOf(timeseries, probe.ext.time[1])
          IN /\ Cardinality(around) >= MinAround
             /\ \A k \in around :
                  IF probe.mode = "min" THEN timeseries[k].v >= probe.ext.val[1]
                  ELSE timeseries[k].v <= probe.ext.val[1])

====
